---- MODULE Spec2Model ----
(***************************************************************************)
(* A model of the idjc-x codec glue:                                       *)
(*   - src/c/live_webm_encoder.c : the WebM encoder module, one action per *)
(*     invocation of live_webm_encoder_main (specification Spec);          *)
(*   - src/c/avcodecdecode.c     : the libavcodec player decoder, one step *)
(*     per statement that touches g.avc_mutex or the codec API, for        *)
(*     several player threads (specification SpecThreads).                    *)
(* Handles owned by the external libraries are modelled by their           *)
(* allocation status: "null" (NULL pointer), "live" (allocated) and        *)
(* "dangling" (a pointer to freed memory).                                 *)
(***************************************************************************)
EXTENDS Integers, Sequences, FiniteSets, TLC

\* ------------------------------------------------------------- bounds
\* most write_packet callbacks libavformat makes during one library call; each
\* invocation of the encoder draws one number for the library calls it makes
MaxCb == 1
\* encoder invocations that deliver a header stop once oggserial reached this
MaxSerial == 2
\* number of player threads
NumPlayers == 2
\* number of streams in an input file: ic->streams[0 .. NbStreams-1]
NbStreams == 2
\* largest packet av_read_frame returns, in bytes
MaxPkt == 2
\* what self->drop is set to after a seek, in decoded frames
DropFrames == 1
\* input frames (of nb_samples samples each) one encoder instance is given
MaxFrames == 1

VARIABLES
    encoder,      \* struct encoder: the fields live_webm_encoder.c reads or writes
    ws,           \* the two WebMState blocks: ws.main (self), ws.meta (self->metadata)
    priv,         \* heap status of the two WebMState blocks and how often each was freed
    avc_mutex,    \* g.avc_mutex: NoThread or the thread holding it
    last,         \* what the most recent encoder operation did (observations)
    crashed,      \* the process died on an invalid memory access
    stop_calls,   \* invocations of live_webm_encoder_main since run_request_f was cleared
    pc,           \* threads: position in avcodecdecode_reg/_play/_eject (players)
                  \* and in open_stream/close_stream (the encoder thread)
    xl,           \* player threads: struct xlplayer and its avcodecdecode_vars
    xlplayer      \* one player's data path: struct xlplayer, its avcodecdecode_vars
                  \* and what the most recent decoder call did

vars == <<encoder, ws, priv, avc_mutex, last, crashed, stop_calls, pc, xl,
          xlplayer>>
encVars == <<encoder, ws, priv, last, stop_calls>>
decVars == <<pc, xl, xlplayer>>

\* ----------------------------------------------------------- threads
NoThread == <<"none", 0>>
EncThread == <<"encoder", 0>>
Players == {<<"player", i>> : i \in 1..NumPlayers}
Threads == Players \cup {EncThread}

\* ------------------------------------------------ encoder: WebMState
States == {"main", "meta"}

\* a WebMState as calloc leaves it (live_webm_encoder_init); next_pts and
\* samples_count are counted in frames of nb_samples samples
W0 == [oc |-> "null", buffer |-> "null", avio_ctx |-> "null", st |-> "null",
       codec |-> "closed", frame |-> "null", tmp_frame |-> "null",
       swr_ctx |-> "null", packet_flags |-> {}, set_up |-> FALSE,
       next_pts |-> 0, samples_count |-> 0]

\* the handles a setup acquires
Resources == {"oc", "buffer", "avio_ctx", "codec", "frame", "tmp_frame", "swr_ctx"}

Held(w, r) == IF r = "codec" THEN w.codec = "open" ELSE w[r] = "live"

\* encoder->bitrate, encoder->target_samplerate, encoder->n_channels: the
\* stream parameters the framework configures before it starts the encoder
Formats == {[bitrate |-> 64, target_samplerate |-> 44100, n_channels |-> 1],
            [bitrate |-> 128, target_samplerate |-> 48000, n_channels |-> 2]}
NoFormat == [bitrate |-> 0, target_samplerate |-> 0, n_channels |-> 0]

\* next_pts / (double)encoder->target_samplerate: the quotient, kept as the
\* pair <<frames, rate>>; zero frames give 0.0 at every rate
NoTimestamp == <<0, 1>>
Timestamp(next_pts, rate) == IF next_pts = 0 THEN NoTimestamp ELSE <<next_pts, rate>>

\* the working state threaded through one invocation of the encoder
M0 == [ws |-> [main |-> W0, meta |-> W0], mutex |-> NoThread, oggserial |-> 0,
       format |-> NoFormat, misapplied |-> {}, write_ret |-> {},
       at_write |-> {}, timestamp |-> NoTimestamp,
       api |-> {}, faults |-> {}, out |-> <<>>, encode |-> "none",
       setup_ret |-> [s \in States |-> "none"], fail_live |-> {}]

Fault(m, f) == [m EXCEPT !.faults = @ \cup {f}]

DerefFault(status) == IF status = "null" THEN "null_deref" ELSE "use_after_free"

\* a call into the codec open/close API, noted with whether the mutex is held
ApiCall(m, name) ==
    [m EXCEPT !.api = @ \cup {[call |-> name, held |-> (m.mutex = EncThread)]}]

\* while (pthread_mutex_trylock(&g.avc_mutex)) nanosleep(...)
Lock(m) ==
    IF m.mutex = NoThread THEN [m EXCEPT !.mutex = EncThread]
    ELSE Fault(m, "spin_forever")

Unlock(m) == [m EXCEPT !.mutex = NoThread]

\* avcodec_close(self->st->codec)
AvcodecClose(m, s) ==
    LET m1 == ApiCall(m, "avcodec_close") IN
    IF m.ws[s].st = "live" THEN [m1 EXCEPT !.ws[s].codec = "closed"]
    ELSE Fault(m1, DerefFault(m.ws[s].st))

\* av_frame_free(&self->frame), swr_free(&self->swr_ctx), av_freep(&self->avio_ctx):
\* free what the pointer holds and set the pointer to NULL
FreeAndNull(m, s, fld) ==
    IF m.ws[s][fld] = "dangling" THEN Fault(m, "double_free")
    ELSE [m EXCEPT !.ws[s][fld] = "null"]

\* av_freep(&self->avio_ctx->buffer)
FreepBuffer(m, s) ==
    IF m.ws[s].avio_ctx = "live" THEN [m EXCEPT !.ws[s].buffer = "null"]
    ELSE Fault(m, DerefFault(m.ws[s].avio_ctx))

\* avformat_free_context(self->oc): frees the context and its stream; the
\* pointer self->oc is left as it was
FreeContext(m, s) ==
    IF m.ws[s].oc = "null" THEN m
    ELSE IF m.ws[s].oc = "dangling" THEN Fault(m, "double_free")
    ELSE [m EXCEPT !.ws[s].oc = "dangling",
                   !.ws[s].st = IF @ = "live" THEN "dangling" ELSE @]

\* write_trailer or teardown is applied to state s: noted if the most recent
\* setup of s did not succeed or s was torn down since
Applied(m, fn, s) ==
    IF m.ws[s].set_up THEN m ELSE [m EXCEPT !.misapplied = @ \cup {<<fn, s>>}]

CloseStream(m, s) ==
    FreeAndNull(FreeAndNull(FreeAndNull(AvcodecClose(m, s),
                s, "frame"), s, "tmp_frame"), s, "swr_ctx")

Teardown(m, s) ==
    LET m0 == Applied(m, "teardown", s)
        m1 == FreeContext(FreeAndNull(FreepBuffer(CloseStream(m0, s), s),
                                      s, "avio_ctx"), s)
    IN [m1 EXCEPT !.ws[s].set_up = FALSE]

\* ------------------------------------------- encoder: packet delivery
\* a callback that reports the serial the invocation started with
WritePacket_EntrySerial(m, s) ==
    LET fl == m.ws[s].packet_flags
        ts == Timestamp(m.ws[s].next_pts, m.format.target_samplerate)
        m1 == IF "PF_SUPPRESS" \notin fl
              THEN [m EXCEPT !.out = Append(@, [flags |-> {"PF_WEBM"} \cup fl,
                                                bit_rate |-> m.format.bitrate,
                                                sample_rate |->
                                                    m.format.target_samplerate,
                                                n_channels |-> m.format.n_channels,
                                                serial |-> encoder.oggserial,
                                                timestamp |-> ts,
                                                state |-> s]),
                             !.timestamp = ts]
              ELSE m
    IN [m1 EXCEPT !.ws[s].packet_flags = @ \ {"PF_INITIAL"}]

\* a callback that sets encoder->timestamp even when it is suppressed
WritePacket_SuppressedSetsTimestamp(m, s) ==
    LET fl == m.ws[s].packet_flags
        ts == Timestamp(m.ws[s].next_pts, m.format.target_samplerate)
        m1 == IF "PF_SUPPRESS" \notin fl
              THEN [m EXCEPT !.out = Append(@, [flags |-> {"PF_WEBM"} \cup fl,
                                                bit_rate |-> m.format.bitrate,
                                                sample_rate |->
                                                    m.format.target_samplerate,
                                                n_channels |-> m.format.n_channels,
                                                serial |-> m.oggserial,
                                                timestamp |-> ts,
                                                state |-> s]),
                             !.timestamp = ts]
              ELSE [m EXCEPT !.timestamp = ts]
    IN [m1 EXCEPT !.ws[s].packet_flags = @ \ {"PF_INITIAL"}]

\* write_packet: the AVIO callback; unless PF_SUPPRESS is set it sets
\* encoder->timestamp and delivers to encoder_write_packet_all; it clears
\* PF_INITIAL
WritePacket(m, s) ==
    LET fl == m.ws[s].packet_flags
        ts == Timestamp(m.ws[s].next_pts, m.format.target_samplerate)
        m1 == IF "PF_SUPPRESS" \notin fl
              THEN [m EXCEPT !.out = Append(@, [flags |-> {"PF_WEBM"} \cup fl,
                                                bit_rate |-> m.format.bitrate,
                                                sample_rate |->
                                                    m.format.target_samplerate,
                                                n_channels |-> m.format.n_channels,
                                                serial |-> m.oggserial,
                                                timestamp |-> ts,
                                                state |-> s]),
                             !.timestamp = ts]
              ELSE m
    IN [m1 EXCEPT !.ws[s].packet_flags = @ \ {"PF_INITIAL"}]

RECURSIVE Callbacks(_, _, _)
Callbacks(m, s, n) == IF n = 0 THEN m ELSE Callbacks(WritePacket(m, s), s, n - 1)

\* a libavformat call that writes through self->oc (avformat_write_header,
\* av_write_frame, av_write_trailer): n callbacks; the context must be valid
LibWrite(m, s, n) ==
    IF m.ws[s].oc = "live" THEN Callbacks(m, s, n)
    ELSE Fault(m, DerefFault(m.ws[s].oc))

AddFlags(m, s, fl) == [m EXCEPT !.ws[s].packet_flags = @ \cup fl]
DelFlags(m, s, fl) == [m EXCEPT !.ws[s].packet_flags = @ \ fl]

\* a write_header that leaves the extra flags set when it returns
WriteHeader_KeepsExtraFlags(m, s, extra_flags, n) ==
    LET m1 == IF "PF_SUPPRESS" \notin extra_flags
              THEN [m EXCEPT !.oggserial = @ + 1] ELSE m
        m2 == AddFlags(m1, s, {"PF_HEADER", "PF_INITIAL"} \cup extra_flags)
        m3 == LibWrite(m2, s, n)
    IN DelFlags(m3, s, {"PF_HEADER"})

\* write_header; n: the callbacks avformat_write_header makes
WriteHeader(m, s, extra_flags, n) ==
    LET m1 == IF "PF_SUPPRESS" \notin extra_flags
              THEN [m EXCEPT !.oggserial = @ + 1] ELSE m
        m2 == AddFlags(m1, s, {"PF_HEADER", "PF_INITIAL"} \cup extra_flags)
        m3 == LibWrite(m2, s, n)
    IN DelFlags(m3, s, {"PF_HEADER"} \cup extra_flags)

WriteTrailer(m, s, extra_flags, n) ==
    LET m1 == AddFlags(Applied(m, "write_trailer", s), s, extra_flags)
        m2 == LibWrite(m1, s, n)
        m3 == AddFlags(m2, s, {"PF_FINAL"})
        m4 == WritePacket(m3, s)
    IN DelFlags(m4, s, {"PF_FINAL"} \cup extra_flags)

\* ---------------------------------------------------- encoder: setup
\* where a setup can fail: the library call that reports the failure
EarlyFails == {"avformat_alloc_context", "av_guess_format", "av_malloc",
               "avio_alloc_context", "avcodec_find_encoder",
               "avformat_new_stream", "avcodec_open2"}
LateFails == {"swr_alloc", "swr_init", "avformat_write_header", "none"}

\* the outcomes of the library calls of one setup: the failing call, and
\* whether the two alloc_audio_frame calls returned a frame
SetupOutcomes ==
    [fail : EarlyFails, frame_ok : {TRUE}, tmp_ok : {TRUE}] \cup
    [fail : LateFails, frame_ok : BOOLEAN, tmp_ok : BOOLEAN]

NoSetup == [fail |-> "none", frame_ok |-> TRUE, tmp_ok |-> TRUE]

\* add_stream: TRUE and a stream in self->st, or FALSE
AddStream(m, s, o) ==
    IF o.fail = "avcodec_find_encoder" THEN [m |-> m, ret |-> FALSE]
    ELSE IF o.fail = "avformat_new_stream"
         THEN [m |-> [m EXCEPT !.ws[s].st = "null"], ret |-> FALSE]
    ELSE [m |-> [m EXCEPT !.ws[s].st = "live"], ret |-> TRUE]

\* open_stream: returns 1 (TRUE) or 0 (FALSE)
OpenStream(m, s, o) ==
    LET m1 == Unlock(ApiCall(Lock(m), "avcodec_open2")) IN
    IF o.fail = "avcodec_open2" THEN [m |-> m1, ret |-> FALSE]
    ELSE
    LET m2 == [m1 EXCEPT !.ws[s].codec = "open",
                         !.ws[s].frame = IF o.frame_ok THEN "live" ELSE "null",
                         !.ws[s].tmp_frame = IF o.tmp_ok THEN "live" ELSE "null"]
    IN IF o.fail = "swr_alloc"
       THEN [m |-> AvcodecClose([m2 EXCEPT !.ws[s].swr_ctx = "null"], s),
             ret |-> FALSE]
       ELSE IF o.fail = "swr_init"
       THEN [m |-> AvcodecClose(
                     FreeAndNull([m2 EXCEPT !.ws[s].swr_ctx = "live"], s, "swr_ctx"), s),
             ret |-> FALSE]
       ELSE [m |-> [m2 EXCEPT !.ws[s].swr_ctx = "live"], ret |-> TRUE]

\* the cleanup chain of setup
Fail2(m, s) == FreeContext(m, s)
Fail3(m, s) == Fail2(FreepBuffer(m, s), s)
Fail4(m, s) == Fail2(FreeAndNull(FreepBuffer(m, s), s, "avio_ctx"), s)
Fail5(m, s) == Fail4(CloseStream(m, s), s)

\* a switch whose default case falls into the Vorbis case
CodecId_NoDefault(codec) ==
    IF codec = "ENCODER_CODEC_OPUS" THEN "AV_CODEC_ID_OPUS"
    ELSE "AV_CODEC_ID_VORBIS"

\* the switch on encoder->data_format.codec at the head of setup: the codec
\* id, or "none" for the default case (goto fail1)
CodecId(codec) ==
    IF codec = "ENCODER_CODEC_VORBIS" THEN "AV_CODEC_ID_VORBIS"
    ELSE IF codec = "ENCODER_CODEC_OPUS" THEN "AV_CODEC_ID_OPUS"
    ELSE "none"

\* the body of setup: the working state at its return and SUCCEEDED/FAILED
SetupBody(m, s, codec, extra_flags, o, n) ==
    LET failed(mm) == [m |-> mm, ret |-> "FAILED"] IN
    IF CodecId(codec) = "none" THEN failed(m)
    ELSE IF o.fail = "avformat_alloc_context"
         THEN failed([m EXCEPT !.ws[s].oc = "null"])
    ELSE
    LET m1 == [m EXCEPT !.ws[s].oc = "live"] IN
    IF o.fail = "av_guess_format" THEN failed(Fail2(m1, s))
    ELSE IF o.fail = "av_malloc" THEN failed(Fail2(m1, s))
    ELSE
    LET m2 == [m1 EXCEPT !.ws[s].buffer = "live"] IN
    IF o.fail = "avio_alloc_context"
    THEN failed(Fail3([m2 EXCEPT !.ws[s].avio_ctx = "null"], s))
    ELSE
    LET m3 == [m2 EXCEPT !.ws[s].avio_ctx = "live"]
        a == AddStream(m3, s, o)
    IN IF ~a.ret THEN failed(Fail4(a.m, s))
    ELSE
    LET p == OpenStream(a.m, s, o) IN
    IF ~p.ret THEN failed(Fail4(p.m, s))
    ELSE
    LET m4 == WriteHeader(p.m, s, extra_flags, n) IN
    IF o.fail = "avformat_write_header" THEN failed(Fail5(m4, s))
    ELSE [m |-> m4, ret |-> "SUCCEEDED"]

\* setup, with its result and the handles still allocated at a FAILED
\* return noted in the working state
Setup(m, s, codec, extra_flags, o, n) ==
    LET r == SetupBody(m, s, codec, extra_flags, o, n)
        live == IF r.ret = "FAILED"
                THEN {<<s, x>> : x \in {y \in Resources : Held(r.m.ws[s], y)}}
                ELSE {}
    IN [m |-> [r.m EXCEPT !.setup_ret[s] = r.ret, !.fail_live = @ \cup live,
                          !.ws[s].set_up = (r.ret = "SUCCEEDED")],
        ret |-> r.ret]

\* ------------------------------------------ encoder: write_audio_frame
WriteFails == {"none", "av_frame_make_writable", "swr_convert",
               "avcodec_encode_audio2", "av_write_frame"}

\* the outcomes of the calls of one write_audio_frame: whether
\* encoder_get_input_data had input, the failing call, and got_packet
WriteOutcomes(rr) ==
    {o \in [input : BOOLEAN, fail : WriteFails, got_packet : BOOLEAN] :
        /\ o.input => rr
        /\ o.fail \in {"av_frame_make_writable", "swr_convert"} =>
                                                  o.input /\ ~o.got_packet
        /\ o.fail = "avcodec_encode_audio2" => ~o.got_packet
        /\ o.fail = "av_write_frame" => o.got_packet}

\* get_audio_frame: reads self->tmp_frame->nb_samples, then asks for input;
\* a frame of input advances next_pts
GetAudioFrame(m, o) ==
    LET m1 == IF o.input THEN [m EXCEPT !.ws.main.next_pts = @ + 1] ELSE m IN
    IF m.ws.main.tmp_frame = "live" THEN [m |-> m1, frame |-> o.input]
    ELSE [m |-> Fault(m1, DerefFault(m.ws.main.tmp_frame)), frame |-> o.input]

\* a write_audio_frame that returns 0 whenever no call failed
WriteAudioFrame_IgnoresRequest(m, rr, o, n) ==
    LET m0 == [m EXCEPT !.at_write = m.ws.main.packet_flags \cup
                                     m.ws.meta.packet_flags]
        g == IF rr THEN GetAudioFrame(m0, o) ELSE [m |-> m0, frame |-> FALSE]
        m1 == IF g.frame /\ g.m.ws.main.frame # "live"
              THEN Fault(g.m, DerefFault(g.m.ws.main.frame)) ELSE g.m
    IN IF g.frame /\ o.fail \in {"av_frame_make_writable", "swr_convert"}
       THEN [m |-> m1, ret |-> -1]
       ELSE
       LET m2 == [m1 EXCEPT !.encode = IF g.frame THEN "frame" ELSE "null",
                            !.ws.main.samples_count =
                                IF g.frame THEN @ + 1 ELSE @] IN
       IF o.fail = "avcodec_encode_audio2" THEN [m |-> m2, ret |-> -1]
       ELSE
       LET m3 == IF o.got_packet THEN LibWrite(m2, "main", n) ELSE m2 IN
       IF o.got_packet /\ o.fail = "av_write_frame" THEN [m |-> m3, ret |-> -1]
       ELSE [m |-> m3, ret |-> 0]

\* write_audio_frame on the main state: the working state and -1, 0 or 1;
\* at_write notes the packet flags of the two states at its entry
WriteAudioFrame(m, rr, o, n) ==
    LET m0 == [m EXCEPT !.at_write = m.ws.main.packet_flags \cup
                                     m.ws.meta.packet_flags]
        g == IF rr THEN GetAudioFrame(m0, o) ELSE [m |-> m0, frame |-> FALSE]
        m1 == IF g.frame /\ g.m.ws.main.frame # "live"
              THEN Fault(g.m, DerefFault(g.m.ws.main.frame)) ELSE g.m
    IN IF g.frame /\ o.fail \in {"av_frame_make_writable", "swr_convert"}
       THEN [m |-> m1, ret |-> -1]
       ELSE
       LET m2 == [m1 EXCEPT !.encode = IF g.frame THEN "frame" ELSE "null",
                            !.ws.main.samples_count =
                                IF g.frame THEN @ + 1 ELSE @] IN
       IF o.fail = "avcodec_encode_audio2" THEN [m |-> m2, ret |-> -1]
       ELSE
       LET m3 == IF o.got_packet THEN LibWrite(m2, "main", n) ELSE m2 IN
       IF o.got_packet /\ o.fail = "av_write_frame" THEN [m |-> m3, ret |-> -1]
       ELSE [m |-> m3, ret |-> IF rr THEN 0 ELSE 1]

\* ------------------------------------- encoder: live_webm_encoder_main
\* the working state at entry of an invocation
Entry == [M0 EXCEPT !.ws = ws, !.mutex = avc_mutex, !.oggserial = encoder.oggserial,
                    !.format = encoder.format, !.timestamp = encoder.timestamp]

\* bailout: the cleanup at the end of live_webm_encoder_main
Bailout(e) ==
    [e EXCEPT !.run_request_f = FALSE, !.encoder_state = "ES_STOPPED",
              !.run_encoder = FALSE, !.flush = FALSE, !.encoder_private = FALSE]

\* a cleanup that forgets free(self->metadata)
FreeBlocks_NoMetadata(p) ==
    [p EXCEPT !.main = [status |-> "freed", frees |-> p.main.frees + 1]]

\* free(self->metadata); free(self)
FreeBlocks(p) ==
    [s \in States |-> [status |-> "freed", frees |-> p[s].frees + 1]]

\* ES_STARTING, both setups done: the state the encoder moves to
StartingNext(rr) == IF rr THEN "ES_RUNNING" ELSE "ES_STOPPING"

\* an error of write_audio_frame that goes straight to ES_STOPPED
RunningNext_ErrorStops(ret) ==
    IF ret = 0 THEN "ES_RUNNING"
    ELSE IF ret = -1 THEN "ES_STOPPED" ELSE "ES_STOPPING"

\* ES_RUNNING: the state after write_audio_frame returned ret
RunningNext(ret) == IF ret = 0 THEN "ES_RUNNING" ELSE "ES_STOPPING"

\* a restart that skips ES_STARTING
StoppingNext_RestartRuns(e) ==
    IF e.run_request_f THEN [e EXCEPT !.encoder_state = "ES_RUNNING"]
    ELSE Bailout(e)

\* ES_STOPPING, both states torn down: restart or fall into bailout
StoppingNext(e) ==
    IF e.run_request_f THEN [e EXCEPT !.encoder_state = "ES_STARTING"]
    ELSE Bailout(e)

\* no encoder operation observed
NoObs == [op |-> "none", from |-> "ES_STOPPED", to |-> "ES_STOPPED", api |-> {},
          faults |-> {}, out |-> <<>>, setup_ret |-> [s \in States |-> "none"],
          fail_live |-> {}, encode |-> "none", misapplied |-> {},
          write_ret |-> {}, at_write |-> {}]

\* the return of an invocation: the working state m, the encoder e and the
\* heap blocks p become the program state. An invalid memory access is
\* undefined behaviour: a NULL dereference kills the process, a use of freed
\* memory kills it or goes unnoticed
Finish(m, e, p) ==
    LET obs == [op |-> "main", from |-> encoder.encoder_state,
                to |-> e.encoder_state, api |-> m.api, faults |-> m.faults,
                out |-> m.out, setup_ret |-> m.setup_ret,
                fail_live |-> m.fail_live, encode |-> m.encode,
                misapplied |-> m.misapplied, write_ret |-> m.write_ret,
                at_write |-> m.at_write]
    IN /\ stop_calls' = IF encoder.run_request_f THEN 0 ELSE stop_calls + 1
       /\ UNCHANGED decVars
       /\ \/ /\ "null_deref" \notin m.faults
             /\ encoder' = [e EXCEPT !.oggserial = m.oggserial,
                                     !.timestamp = m.timestamp]
             /\ ws' = m.ws
             /\ priv' = p
             /\ avc_mutex' = m.mutex
             /\ last' = obs
             /\ crashed' = FALSE
          \/ /\ m.faults # {}
             /\ crashed' = TRUE
             /\ last' = [NoObs EXCEPT !.op = "main", !.from = obs.from,
                                      !.to = "crashed", !.faults = m.faults,
                                      !.misapplied = m.misapplied]
             /\ UNCHANGED <<encoder, ws, priv, avc_mutex>>

Callable == ~crashed /\ encoder.run_encoder /\ encoder.encoder_private

MainStarting ==
    /\ Callable
    /\ encoder.encoder_state = "ES_STARTING"
    /\ encoder.oggserial < MaxSerial
    /\ \E o1 \in SetupOutcomes, n \in 0..MaxCb :
         LET r1 == Setup(Entry, "main", encoder.codec, {"PF_SUPPRESS"}, o1, n) IN
         IF r1.ret = "FAILED"
         THEN Finish(r1.m, Bailout(encoder), FreeBlocks(priv))
         ELSE \E o2 \in SetupOutcomes :
                LET r2 == Setup(r1.m, "meta", encoder.codec, {}, o2, n) IN
                IF r2.ret = "FAILED"
                THEN Finish(Teardown(r2.m, "main"), Bailout(encoder),
                            FreeBlocks(priv))
                ELSE Finish(r2.m,
                            [encoder EXCEPT !.encoder_state =
                                                StartingNext(encoder.run_request_f)],
                            priv)

\* ES_RUNNING: a new_metadata request
OnNewMetadata(m, codec, o, n) ==
    LET m1 == WriteTrailer(m, "main", {}, n)
        m2 == WriteHeader(m1, "main", {"PF_SUPPRESS"}, n)
        m3 == WriteTrailer(m2, "meta", {"PF_SUPPRESS"}, n)
        m4 == Teardown(m3, "meta")
    IN Setup(m4, "meta", codec, {}, o, n).m

\* a flush that restarts the stream from the main state
OnFlush_HeaderFromMain(m, n) ==
    LET m1 == WriteTrailer(m, "main", {}, n)
        m2 == WriteHeader(m1, "main", {}, n)
        m3 == WriteTrailer(m2, "meta", {"PF_SUPPRESS"}, n)
    IN WriteHeader(m3, "meta", {"PF_SUPPRESS"}, n)

\* ES_RUNNING: a flush request
OnFlush(m, n) ==
    LET m1 == WriteTrailer(m, "main", {}, n)
        m2 == WriteHeader(m1, "main", {"PF_SUPPRESS"}, n)
        m3 == WriteTrailer(m2, "meta", {"PF_SUPPRESS"}, n)
    IN WriteHeader(m3, "meta", {}, n)

MainRunning ==
    /\ Callable
    /\ encoder.encoder_state = "ES_RUNNING"
    /\ LET meta == encoder.new_metadata /\ encoder.use_metadata IN
       /\ encoder.oggserial + (IF meta THEN 1 ELSE 0)
                            + (IF encoder.flush THEN 1 ELSE 0) <= MaxSerial
       /\ \E o \in (IF meta THEN SetupOutcomes ELSE {NoSetup}),
             w \in {x \in WriteOutcomes(encoder.run_request_f) :
                        x.input => ws.main.next_pts < MaxFrames},
             n \in 0..MaxCb :
            LET m1 == IF meta THEN OnNewMetadata(Entry, encoder.codec, o, n)
                      ELSE Entry
                m2 == IF encoder.flush THEN OnFlush(m1, n) ELSE m1
                r == WriteAudioFrame(m2, encoder.run_request_f, w, n)
            IN Finish([r.m EXCEPT !.write_ret = {r.ret}],
                      [encoder EXCEPT !.new_metadata = IF meta THEN FALSE ELSE @,
                                      !.flush = FALSE,
                                      !.encoder_state = RunningNext(r.ret)],
                      priv)

MainStopping ==
    /\ Callable
    /\ encoder.encoder_state = "ES_STOPPING"
    /\ \E n \in 0..MaxCb :
         LET m1 == WriteTrailer(Entry, "meta", {"PF_SUPPRESS"}, n)
             m2 == WriteTrailer(m1, "main", {}, n)
             m3 == Teardown(Teardown(m2, "meta"), "main")
             e == StoppingNext([encoder EXCEPT !.flush = FALSE])
         IN Finish(m3, e,
                   IF e.encoder_state = "ES_STOPPED" THEN FreeBlocks(priv) ELSE priv)

\* ----------------------------------- encoder: init and the framework
Codecs == {"ENCODER_CODEC_VORBIS", "ENCODER_CODEC_OPUS", "ENCODER_CODEC_OTHER"}

\* live_webm_encoder_init; o: which calloc fails ("self", "metadata") or "none"
LiveWebmEncoderInit(e, p, o) ==
    IF o = "self" THEN [e |-> e, p |-> p, ret |-> "FAILED"]
    ELSE IF o = "metadata"
    THEN [e |-> e, p |-> [p EXCEPT !.main = [status |-> "live", frees |-> 0]],
          ret |-> "FAILED"]
    ELSE [e |-> [e EXCEPT !.encoder_private = TRUE, !.run_encoder = TRUE],
          p |-> [s \in States |-> [status |-> "live", frees |-> 0]],
          ret |-> "SUCCEEDED"]

\* the framework starts a stopped encoder: it initialises the module and, if
\* that succeeded, requests a run in ES_STARTING
EncoderStart ==
    /\ ~crashed
    /\ encoder.encoder_state = "ES_STOPPED"
    /\ ~encoder.run_encoder
    /\ encoder.oggserial < MaxSerial
    /\ \E c \in Codecs, f \in Formats, um \in BOOLEAN,
          o \in {"none", "self", "metadata"} :
         LET r == LiveWebmEncoderInit(encoder, priv, o) IN
         /\ encoder' = IF r.ret = "SUCCEEDED"
                       THEN [r.e EXCEPT !.encoder_state = "ES_STARTING",
                                        !.run_request_f = TRUE,
                                        !.codec = c, !.format = f,
                                        !.use_metadata = um,
                                        !.flush = FALSE, !.new_metadata = FALSE]
                       ELSE r.e
         /\ priv' = r.p
         /\ ws' = IF r.ret = "SUCCEEDED" THEN [s \in States |-> W0] ELSE ws
         /\ last' = [NoObs EXCEPT !.op = "init"]
         /\ stop_calls' = 0
         /\ UNCHANGED <<avc_mutex, crashed, decVars>>

\* the framework asks a running encoder to stop
EncoderStop ==
    /\ ~crashed
    /\ encoder.encoder_state # "ES_STOPPED"
    /\ encoder.run_request_f
    /\ encoder' = [encoder EXCEPT !.run_request_f = FALSE]
    /\ last' = NoObs
    /\ stop_calls' = 0
    /\ UNCHANGED <<ws, priv, avc_mutex, crashed, decVars>>

\* the framework asks for a flush of the stream
RequestFlush ==
    /\ ~crashed
    /\ encoder.encoder_state # "ES_STOPPED"
    /\ ~encoder.flush
    /\ encoder' = [encoder EXCEPT !.flush = TRUE]
    /\ last' = NoObs
    /\ UNCHANGED <<ws, priv, avc_mutex, crashed, stop_calls, decVars>>

\* the framework announces new metadata
NewMetadata ==
    /\ ~crashed
    /\ encoder.encoder_state # "ES_STOPPED"
    /\ ~encoder.new_metadata
    /\ encoder' = [encoder EXCEPT !.new_metadata = TRUE]
    /\ last' = NoObs
    /\ UNCHANGED <<ws, priv, avc_mutex, crashed, stop_calls, decVars>>

EncInit ==
    /\ encoder = [encoder_state |-> "ES_STOPPED", run_request_f |-> FALSE,
                  flush |-> FALSE, new_metadata |-> FALSE, use_metadata |-> FALSE,
                  codec |-> "ENCODER_CODEC_VORBIS", format |-> NoFormat,
                  run_encoder |-> FALSE,
                  encoder_private |-> FALSE, oggserial |-> 0,
                  timestamp |-> NoTimestamp]
    /\ ws = [s \in States |-> W0]
    /\ priv = [s \in States |-> [status |-> "none", frees |-> 0]]
    /\ last = NoObs
    /\ stop_calls = 0

\* ------------------------------------------------ decoder: players
\* unsigned int: TLC's integers are 32 bits wide, so the conversion to the
\* unsigned type is modelled with 16 bits
UIntModulus == 2^16
ToUnsigned(x) == x % UIntModulus

\* what av_find_best_stream returns: a stream index, or a negative error code
BestStreamResults == -1..(NbStreams - 1)

\* struct xlplayer with its avcodecdecode_vars (dec_data), before any
\* registration; best, calls, installs: what av_find_best_stream returned to
\* the current avcodecdecode_reg, the calls it has made and how often it has
\* installed the callbacks
X0 == [dec_data |-> "null", frees |-> 0, ic |-> "null", stream |-> 0,
       c |-> "null", codec_open |-> FALSE, dec |-> "none", ret |-> "none",
       best |-> {}, calls |-> {}, installs |-> 0]

\* free(self): the vars block and the fields in it are gone
FreeVars(x) ==
    [x EXCEPT !.dec_data = "freed", !.frees = @ + 1, !.stream = 0, !.c = "null"]

\* avformat_close_input(&self->ic): closes the input, its streams and their
\* codec contexts, and sets self->ic to NULL
CloseInput(x) == [x EXCEPT !.ic = "null", !.codec_open = FALSE]

\* return REJECTED
Rejected(x) == [x EXCEPT !.ret = "REJECTED"]

\* one step of player t: its position and its player block change
Step(t, to, x) ==
    /\ pc' = [pc EXCEPT ![t] = to]
    /\ xl' = [xl EXCEPT ![t] = x]
    /\ UNCHANGED <<encVars, crashed, xlplayer>>

\* a trylock loop that is left whether or not the lock was taken
TryLock_Unchecked(t) == avc_mutex' = IF avc_mutex = NoThread THEN t ELSE avc_mutex

\* pthread_mutex_trylock succeeded (a failed attempt sleeps and tries again)
TryLock(t) == avc_mutex = NoThread /\ avc_mutex' = t

\* pthread_mutex_unlock
MutexUnlock(t) == avc_mutex' = IF avc_mutex = t THEN NoThread ELSE avc_mutex

\* the process dies at player t's current statement
Crash(t) ==
    /\ crashed' = TRUE
    /\ UNCHANGED <<encVars, avc_mutex, pc, xl, xlplayer>>

\* avcodecdecode_reg up to the first use of the mutex: calloc, the tag
\* scan, avformat_open_input, avformat_find_stream_info
RegBegin(t) ==
    /\ ~crashed
    /\ pc[t] = "idle"
    /\ UNCHANGED avc_mutex
    /\ \E o \in {"calloc", "avformat_open_input", "avformat_find_stream_info", "none"} :
         LET x0 == [X0 EXCEPT !.dec = xl[t].dec] IN
         IF o = "calloc"
         THEN Step(t, "idle", [x0 EXCEPT !.ret = "REJECTED"])
         ELSE
         LET x1 == [x0 EXCEPT !.dec_data = "live",
                              !.calls = {"avformat_open_input"}] IN
         IF o = "avformat_open_input"
         THEN Step(t, "idle", Rejected(FreeVars(x1)))
         ELSE
         LET x2 == [x1 EXCEPT !.ic = "live",
                              !.calls = @ \cup {"avformat_find_stream_info"}] IN
         IF o = "avformat_find_stream_info"
         THEN Step(t, "idle", Rejected(FreeVars(CloseInput(x2))))
         ELSE Step(t, "reg_lock1", x2)

RegLock1(t) ==
    /\ ~crashed
    /\ pc[t] = "reg_lock1"
    /\ TryLock(t)
    /\ Step(t, "reg_find", xl[t])

\* self->stream = av_find_best_stream(...), tested < 0 after the assignment
\* to the unsigned field
RegFind(t) ==
    /\ ~crashed
    /\ pc[t] = "reg_find"
    /\ UNCHANGED avc_mutex
    /\ \E res \in BestStreamResults :
         LET x == [xl[t] EXCEPT !.stream = ToUnsigned(res), !.best = {res},
                                !.calls = @ \cup {"av_find_best_stream"}] IN
         IF x.stream < 0
         THEN Step(t, "idle", Rejected(FreeVars(CloseInput(x))))
         ELSE Step(t, "reg_unlock1", x)

RegUnlock1(t) ==
    /\ ~crashed
    /\ pc[t] = "reg_unlock1"
    /\ MutexUnlock(t)
    /\ Step(t, "reg_index", xl[t])

\* self->c = self->ic->streams[self->stream]->codec; an index past the
\* stream array reads memory that is not a stream: the process dies or an
\* arbitrary pointer is taken for the codec context
RegIndex(t) ==
    /\ ~crashed
    /\ pc[t] = "reg_index"
    /\ LET x == [xl[t] EXCEPT !.calls = @ \cup {"index_streams"}] IN
       IF x.stream < NbStreams
       THEN /\ Step(t, "reg_lock2", [x EXCEPT !.c = "ctx"])
            /\ UNCHANGED avc_mutex
       ELSE \/ /\ Step(t, "reg_lock2", [x EXCEPT !.c = "garbage"])
               /\ UNCHANGED avc_mutex
            \/ Crash(t)

RegLock2(t) ==
    /\ ~crashed
    /\ pc[t] = "reg_lock2"
    /\ TryLock(t)
    /\ Step(t, "reg_open", xl[t])

\* avcodec_open2(self->c, self->codec, NULL); on a pointer that is no codec
\* context it fails, reports success or kills the process
RegOpen(t) ==
    /\ ~crashed
    /\ pc[t] = "reg_open"
    /\ LET x == [xl[t] EXCEPT !.calls = @ \cup {"avcodec_open2"}] IN
       \/ /\ Step(t, "reg_unlock2", [x EXCEPT !.codec_open = TRUE])
          /\ UNCHANGED avc_mutex
       \/ /\ Step(t, "reg_open_failed", x)
          /\ UNCHANGED avc_mutex
       \/ /\ x.c = "garbage"
          /\ Crash(t)

\* an error return that forgets pthread_mutex_unlock
RegOpenFailed_NoUnlock(t) ==
    /\ ~crashed
    /\ pc[t] = "reg_open_failed"
    /\ UNCHANGED avc_mutex
    /\ Step(t, "idle", Rejected(FreeVars(CloseInput(xl[t]))))

\* avcodec_open2 failed: unlock, close the input, free the vars, REJECTED
RegOpenFailed(t) ==
    /\ ~crashed
    /\ pc[t] = "reg_open_failed"
    /\ MutexUnlock(t)
    /\ Step(t, "idle", Rejected(FreeVars(CloseInput(xl[t]))))

\* avcodec_open2 succeeded: unlock, install the callbacks, ACCEPTED
RegAccept(t) ==
    /\ ~crashed
    /\ pc[t] = "reg_unlock2"
    /\ MutexUnlock(t)
    /\ Step(t, "ready", [xl[t] EXCEPT !.dec = "avcodecdecode", !.installs = @ + 1,
                                      !.ret = "ACCEPTED"])

\* avcodecdecode_play up to its decode loop: a deferred write, the end of
\* the input and a packet of another stream return at once
PlayBegin(t) ==
    /\ ~crashed
    /\ pc[t] = "ready"
    /\ UNCHANGED avc_mutex
    /\ \E decode \in BOOLEAN :
         Step(t, IF decode THEN "play_lock" ELSE "ready", xl[t])

PlayLock(t) ==
    /\ ~crashed
    /\ pc[t] = "play_lock"
    /\ TryLock(t)
    /\ Step(t, "play_decode", xl[t])

\* avcodec_decode_audio4
PlayDecode(t) ==
    /\ ~crashed
    /\ pc[t] = "play_decode"
    /\ UNCHANGED avc_mutex
    /\ Step(t, "play_unlock", xl[t])

\* a decode error that leaves the loop before pthread_mutex_unlock
PlayUnlock_ErrorKeepsMutex(t) ==
    /\ ~crashed
    /\ pc[t] = "play_unlock"
    /\ \E again \in BOOLEAN, err \in BOOLEAN :
         /\ IF err THEN UNCHANGED avc_mutex ELSE MutexUnlock(t)
         /\ Step(t, IF again /\ ~err THEN "play_lock" ELSE "ready", xl[t])

\* after the decode call: unlock, then the rest of the loop body; the loop
\* goes round again or avcodecdecode_play returns
PlayUnlock(t) ==
    /\ ~crashed
    /\ pc[t] = "play_unlock"
    /\ MutexUnlock(t)
    /\ \E again \in BOOLEAN :
         Step(t, IF again THEN "play_lock" ELSE "ready", xl[t])

\* avcodecdecode_eject up to the mutex: the packet, the resampler and the
\* sample buffers are released
EjectBegin(t) ==
    /\ ~crashed
    /\ pc[t] = "ready"
    /\ UNCHANGED avc_mutex
    /\ Step(t, "eject_lock", [xl[t] EXCEPT !.ret = "none"])

EjectLock(t) ==
    /\ ~crashed
    /\ pc[t] = "eject_lock"
    /\ TryLock(t)
    /\ Step(t, "eject_close", xl[t])

\* avcodec_close(self->c)
EjectClose(t) ==
    /\ ~crashed
    /\ pc[t] = "eject_close"
    /\ UNCHANGED avc_mutex
    /\ Step(t, "eject_unlock", [xl[t] EXCEPT !.codec_open = FALSE])

\* unlock, avformat_close_input, free(self)
EjectEnd(t) ==
    /\ ~crashed
    /\ pc[t] = "eject_unlock"
    /\ MutexUnlock(t)
    /\ Step(t, "idle", FreeVars(CloseInput(xl[t])))

\* ------------------------------- the encoder thread at the codec API
\* one step of the encoder thread in open_stream or close_stream
EncStep(to) ==
    /\ pc' = [pc EXCEPT ![EncThread] = to]
    /\ UNCHANGED <<encVars, crashed, xl, xlplayer>>

\* setup calls open_stream
OpenStreamBegin ==
    /\ ~crashed
    /\ pc[EncThread] = "idle"
    /\ UNCHANGED avc_mutex
    /\ EncStep("open_lock")

OpenStreamLock ==
    /\ ~crashed
    /\ pc[EncThread] = "open_lock"
    /\ TryLock(EncThread)
    /\ EncStep("open_call")

\* ret = avcodec_open2(c, codec, NULL)
OpenStreamOpen ==
    /\ ~crashed
    /\ pc[EncThread] = "open_call"
    /\ UNCHANGED avc_mutex
    /\ EncStep("open_unlock")

\* unlock, then the rest of open_stream: it returns 0 at once (ret < 0),
\* closes the codec again (swr_alloc or swr_init failed) or returns 1
OpenStreamUnlock ==
    /\ ~crashed
    /\ pc[EncThread] = "open_unlock"
    /\ MutexUnlock(EncThread)
    /\ \E o \in {"avcodec_open2", "swr", "none"} :
         EncStep(IF o = "avcodec_open2" THEN "idle"
                 ELSE IF o = "swr" THEN "close_call" ELSE "opened")

\* close_stream, called by setup (fail5) and by teardown
CloseStreamBegin ==
    /\ ~crashed
    /\ pc[EncThread] = "opened"
    /\ UNCHANGED avc_mutex
    /\ EncStep("close_call")

\* avcodec_close(c) in open_stream and in close_stream, then the return
CodecClose ==
    /\ ~crashed
    /\ pc[EncThread] = "close_call"
    /\ UNCHANGED avc_mutex
    /\ EncStep("idle")

\* ------------------------------------------------------ specifications
\* ------------------------------------ decoder: one player's data path
\* the channel counts self->c->channels of the files the player is given
SourceChannels == {1, 2, 6}

\* an event of a decoder call, in the order the call made it; eoi and frames
\* are src_data->end_of_input and src_data->input_frames at a src_process,
\* channels is the channel count passed to xlplayer_demux_channel_data
Ev(name) == [ev |-> name, resample |-> FALSE, eoi |-> FALSE, frames |-> 0,
             channels |-> 0, chapter |-> "none"]
EvDemux(ch) == [Ev("demux") EXCEPT !.channels = ch]

\* the chapters of a file's tag; mp3_tag_chapter_scan returns one of them or
\* NULL ("none")
Chapters == {"chapter1", "chapter2"}
ScanResults == Chapters \cup {"none"}
EvScan(r) == [Ev("chapter_scan") EXCEPT !.chapter = r]
EvAnnounce(r) == [Ev("set_dynamic_metadata") EXCEPT !.chapter = r]
EvEject(x) == [Ev("eject") EXCEPT !.resample = x.resample]
EvSrcProcess(x) ==
    [Ev("src_process") EXCEPT !.eoi = x.end_of_input, !.frames = x.input_frames]
Note(x, e) == [x EXCEPT !.log = Append(@, e)]

\* struct xlplayer and the avcodecdecode_vars block before a file is loaded
XP0 == [stage |-> "none", dec_data |-> "null", playmode |-> "PM_STOPPED",
        command |-> "CMD_COMPLETE", write_deferred |-> FALSE,
        rate_match |-> TRUE, seek_glitch |-> FALSE, resample |-> FALSE,
        src_state |-> "null", data_out |-> "null", end_of_input |-> FALSE,
        input_frames |-> 0, size |-> 0, pkt |-> "null", pkt_audio |-> FALSE,
        drop |-> 0, ejects |-> 0, hung |-> FALSE, faults |-> {},
        c_channels |-> 0, channels |-> 0, current_chapter |-> "none",
        op |-> "none", log |-> <<>>]

\* xlplayer->playmode = mode
SetPlaymode(x, mode) == Note([x EXCEPT !.playmode = mode], Ev("playmode"))

\* free(p): p keeps its value
FreeBlock(x, fld) ==
    IF x[fld] = "dangling" THEN [x EXCEPT !.faults = @ \cup {"double_free"}]
    ELSE IF x[fld] = "live" THEN [x EXCEPT ![fld] = "dangling"]
    ELSE x

\* if (self->pkt.data) av_free_packet(&self->pkt)
FreePacket(x) == IF x.pkt = "live" THEN [x EXCEPT !.pkt = "null"] ELSE x

\* an eject that releases the resampler whether or not self->resample is set
EjectCall_AlwaysReleases(x) ==
    LET x1 == Note(FreePacket(x), EvEject(x))
        x2 == FreeBlock([x1 EXCEPT !.src_state = "null"], "data_out")
    IN FreeBlock([x2 EXCEPT !.ejects = @ + 1], "dec_data")

\* avcodecdecode_eject: the packet, the resampler and its buffer if
\* self->resample is set, then the codec, the input and the vars block
EjectCall(x) ==
    LET x1 == Note(FreePacket(x), EvEject(x))
        x2 == IF x1.resample
              THEN FreeBlock([x1 EXCEPT !.src_state = "null"], "data_out")
              ELSE x1
    IN FreeBlock([x2 EXCEPT !.ejects = @ + 1], "dec_data")

\* an init whose failure paths eject without clearing self->resample
InitCall_KeepsResample(x, o) ==
    LET x1 == [x EXCEPT !.drop = IF x.seek_glitch THEN DropFrames ELSE @,
                        !.channels = IF x.c_channels = 1 THEN 1 ELSE 2,
                        !.resample = ~x.rate_match]
        stop(y) == [SetPlaymode(EjectCall(y), "PM_STOPPED")
                       EXCEPT !.command = "CMD_COMPLETE"]
    IN IF ~x1.resample THEN x1
       ELSE IF o = "malloc"
       THEN stop(Note([x1 EXCEPT !.data_out = "null"], Ev("malloc_failed")))
       ELSE IF o = "src_new"
       THEN stop(FreeBlock(Note([x1 EXCEPT !.data_out = "live", !.src_state = "null"],
                                Ev("src_new_failed")), "data_out"))
       ELSE [x1 EXCEPT !.data_out = "live", !.src_state = "live"]

\* avcodecdecode_init; o: the call that fails ("malloc", "src_new") or "none"
InitCall(x, o) ==
    LET x1 == [x EXCEPT !.drop = IF x.seek_glitch THEN DropFrames ELSE @,
                        !.channels = IF x.c_channels = 1 THEN 1 ELSE 2,
                        !.resample = ~x.rate_match]
        stop(y) == [SetPlaymode(EjectCall([y EXCEPT !.resample = FALSE]),
                                "PM_STOPPED")
                       EXCEPT !.command = "CMD_COMPLETE"]
    IN IF ~x1.resample THEN x1
       ELSE
       LET x2 == [x1 EXCEPT !.end_of_input = FALSE] IN
       IF o = "malloc"
       THEN stop(Note([x2 EXCEPT !.data_out = "null"], Ev("malloc_failed")))
       ELSE
       LET x3 == [x2 EXCEPT !.data_out = "live"] IN
       IF o = "src_new"
       THEN stop(FreeBlock(Note([x3 EXCEPT !.src_state = "null"],
                                Ev("src_new_failed")), "data_out"))
       ELSE [x3 EXCEPT !.src_state = "live"]

\* xlplayer_write_channel_data: the ring buffer takes the data, or the
\* write is deferred
WriteChannelData(x) ==
    {Note([x EXCEPT !.write_deferred = d], Ev("write")) : d \in BOOLEAN}

\* src_process(xlplayer->src_state, src_data)
SrcProcess(x) ==
    LET x1 == Note(x, EvSrcProcess(x)) IN
    IF x.src_state = "live" THEN x1
    ELSE [x1 EXCEPT !.faults = @ \cup {DerefFault(x.src_state)}]

\* an end of input whose flush error returns without changing the play mode
EndOfInput_ErrorKeepsMode(x) ==
    LET x1 == FreePacket(x) IN
    IF ~x1.resample THEN {SetPlaymode(x1, "PM_EJECTING")}
    ELSE
    LET x2 == SrcProcess([x1 EXCEPT !.end_of_input = TRUE, !.input_frames = 0])
    IN {Note(x2, Ev("resample_error"))} \cup
       {SetPlaymode(y, "PM_EJECTING") : y \in WriteChannelData(Note(x2, EvDemux(x.c_channels)))}

\* avcodecdecode_play at the end of the input: the resampler is flushed if
\* self->resample is set, then playmode becomes PM_EJECTING
EndOfInput(x) ==
    LET x1 == FreePacket(x) IN
    IF ~x1.resample THEN {SetPlaymode(x1, "PM_EJECTING")}
    ELSE
    LET x2 == SrcProcess([x1 EXCEPT !.end_of_input = TRUE, !.input_frames = 0])
    IN {SetPlaymode(Note(x2, Ev("resample_error")), "PM_EJECTING")} \cup
       {SetPlaymode(y, "PM_EJECTING") : y \in WriteChannelData(Note(x2, EvDemux(x.c_channels)))}

\* mp3_tag_chapter_scan returned r: a chapter other than current_chapter is
\* recorded and announced with xlplayer_set_dynamic_metadata
ChapterScan(x, r) ==
    LET x1 == Note(x, EvScan(r)) IN
    IF r # "none" /\ r # x.current_chapter
    THEN Note([x1 EXCEPT !.current_chapter = r], EvAnnounce(r))
    ELSE x1

\* an end of the loop that keeps a consumed packet
AfterLoop_KeepsPacket(x) ==
    IF x.size <= 0
    THEN {ChapterScan(x, r) : r \in ScanResults}
    ELSE {x}

\* an end of the loop that announces whatever chapter the scan returns
AfterLoop_AnnouncesEveryScan(x) ==
    IF x.size <= 0
    THEN {IF r # "none"
          THEN Note(Note([FreePacket(x) EXCEPT !.current_chapter = r], EvScan(r)),
                    EvAnnounce(r))
          ELSE ChapterScan(FreePacket(x), r) : r \in ScanResults}
    ELSE {x}

\* avcodecdecode_play after the decode loop: with the packet consumed it is
\* freed and the chapters are scanned
AfterLoop(x) ==
    IF x.size <= 0
    THEN {ChapterScan(FreePacket(x), r) : r \in ScanResults}
    ELSE {x}

\* av_read_frame stores a packet in self->pkt: a packet still held there is
\* lost
ReadFrame(x) ==
    IF x.pkt = "live" THEN [x EXCEPT !.faults = @ \cup {"packet_lost"}] ELSE x

\* avcodec_decode_audio4 reads self->pktcopy, the data of self->pkt
DecodePacket(x) ==
    IF x.pkt = "live" THEN x ELSE [x EXCEPT !.faults = @ \cup {"freed_packet_decoded"}]

\* a frame counted against drop and written all the same
DropOrWrite_WritesWhileDropping(y) ==
    WriteChannelData(IF y.drop > 0 THEN [y EXCEPT !.drop = @ - 1] ELSE y)

\* the demuxed frame is counted against drop while drop is positive, and
\* written otherwise
DropOrWrite(y) ==
    IF y.drop > 0 THEN {[y EXCEPT !.drop = @ - 1]}
    ELSE WriteChannelData(y)

\* the decode loop of avcodecdecode_play, at most k more iterations: each
\* calls avcodec_decode_audio4, which fails or consumes len bytes and may
\* give a frame; the frame is converted, resampled, demuxed and written or
\* dropped. A codec that keeps consuming nothing keeps the loop going.
RECURSIVE DecodeLoop(_, _)
DecodeLoop(x, k) ==
    IF k = 0 THEN {[x EXCEPT !.hung = TRUE]}
    ELSE
    LET x0 == Note(DecodePacket(x), Ev("decode"))
        Cont(y) == IF ~y.write_deferred /\ y.size > 0 THEN DecodeLoop(y, k - 1)
                   ELSE AfterLoop(y)
        Frame(y) ==
            LET y1 == IF y.resample THEN SrcProcess([y EXCEPT !.input_frames = 1])
                      ELSE y
                y2 == Note(y1, EvDemux(y.channels))
            IN (IF y.resample
                THEN {SetPlaymode(Note(y1, Ev("resample_error")), "PM_EJECTING")}
                ELSE {}) \cup
               UNION {Cont(z) : z \in DropOrWrite(y2)}
        Consumed(y) == Cont(y) \cup {SetPlaymode(y, "PM_EJECTING")} \cup Frame(y)
    IN AfterLoop(x0) \cup
       UNION {Consumed([x0 EXCEPT !.size = @ - len]) : len \in 0..x.size}

\* avcodecdecode_play from the stream test on
PlayPacket(x) ==
    IF ~x.pkt_audio THEN {[FreePacket(x) EXCEPT !.size = 0]}
    ELSE DecodeLoop(x, MaxPkt + 1)

\* a play that reads and decodes although a write is still deferred
PlayCall_IgnoresDeferred(x) ==
    IF x.size <= 0
    THEN EndOfInput(Note(x, Ev("read_failed"))) \cup
         EndOfInput(Note([ReadFrame(x) EXCEPT !.size = 0, !.pkt = "live"],
                         Ev("read_empty"))) \cup
         UNION {PlayPacket(Note([ReadFrame(x) EXCEPT !.size = n, !.pkt = "live",
                                                     !.pkt_audio = a], Ev("read"))) :
                    n \in 1..MaxPkt, a \in BOOLEAN}
    ELSE PlayPacket(x)

\* avcodecdecode_play: the states it can return with
PlayCall(x) ==
    IF x.write_deferred THEN WriteChannelData(x)
    ELSE IF x.size <= 0
    THEN EndOfInput(Note(x, Ev("read_failed"))) \cup
         EndOfInput(Note([ReadFrame(x) EXCEPT !.size = 0, !.pkt = "live"],
                         Ev("read_empty"))) \cup
         UNION {PlayPacket(Note([ReadFrame(x) EXCEPT !.size = n, !.pkt = "live",
                                                     !.pkt_audio = a], Ev("read"))) :
                    n \in 1..MaxPkt, a \in BOOLEAN}
    ELSE PlayPacket(x)

\* a decoder call begins: the log of the previous call is dropped
Call(x, name) == [x EXCEPT !.op = name, !.log = <<>>]

PlayerStep(x) ==
    /\ xlplayer' = x
    /\ UNCHANGED <<encVars, avc_mutex, crashed, pc, xl>>

\* avcodecdecode_reg accepted a file: a zeroed vars block; the sample rate of
\* the file, the seek position and the play mode are the player's
PlayerLoad ==
    /\ xlplayer.stage = "none"
    /\ \E rm \in BOOLEAN, sg \in BOOLEAN, ch \in SourceChannels,
          r \in ScanResults :
         PlayerStep([XP0 EXCEPT !.stage = "registered", !.dec_data = "live",
                                !.rate_match = rm, !.seek_glitch = sg,
                                !.c_channels = ch,
                                !.current_chapter = r,
                                !.log = IF r = "none" THEN <<>>
                                        ELSE <<EvAnnounce(r)>>,
                                !.src_state = xlplayer.src_state,
                                !.data_out = xlplayer.data_out,
                                !.playmode = "PM_INITIATE",
                                !.command = "CMD_PLAY", !.op = "load"])

\* the player calls dec_init
AvcodecdecodeInit ==
    /\ xlplayer.stage = "registered"
    /\ \E o \in {"none", "malloc", "src_new"} :
         LET x == InitCall(Call(xlplayer, "init"), o) IN
         PlayerStep([x EXCEPT !.stage = IF x.dec_data = "live" THEN "inited"
                                        ELSE "none"])

\* the player starts to play an initialised decoder
PlayerStart ==
    /\ xlplayer.stage = "inited"
    /\ xlplayer.playmode = "PM_INITIATE"
    /\ PlayerStep([xlplayer EXCEPT !.playmode = "PM_PLAYING", !.op = "start"])

\* the player asks for an eject
PlayerEjectRequest ==
    /\ xlplayer.stage = "inited"
    /\ xlplayer.playmode = "PM_PLAYING"
    /\ ~xlplayer.hung
    /\ PlayerStep([xlplayer EXCEPT !.playmode = "PM_EJECTING", !.op = "request"])

\* the player calls dec_play
AvcodecdecodePlay ==
    /\ xlplayer.stage = "inited"
    /\ xlplayer.playmode = "PM_PLAYING"
    /\ ~xlplayer.hung
    /\ \E x \in PlayCall(Call(xlplayer, "play")) : PlayerStep(x)

\* the player calls dec_eject
AvcodecdecodeEject ==
    /\ xlplayer.stage = "inited"
    /\ xlplayer.playmode = "PM_EJECTING"
    /\ PlayerStep([EjectCall(Call(xlplayer, "eject")) EXCEPT !.stage = "none"])

DecInit ==
    /\ pc = [t \in Threads |-> "idle"]
    /\ xl = [t \in Players |-> X0]
    /\ xlplayer = XP0

Init == EncInit /\ DecInit /\ avc_mutex = NoThread /\ crashed = FALSE

Next ==
    \/ EncoderStart
    \/ EncoderStop
    \/ RequestFlush
    \/ NewMetadata
    \/ MainStarting
    \/ MainRunning
    \/ MainStopping

\* the encoder: one action per invocation of live_webm_encoder_main
Spec == Init /\ [][Next]_vars

PlayerNext(t) ==
        \/ RegBegin(t)
        \/ RegLock1(t)
        \/ RegFind(t)
        \/ RegUnlock1(t)
        \/ RegIndex(t)
        \/ RegLock2(t)
        \/ RegOpen(t)
        \/ RegOpenFailed(t)
        \/ RegAccept(t)
        \/ PlayBegin(t)
        \/ PlayLock(t)
        \/ PlayDecode(t)
        \/ PlayUnlock(t)
        \/ EjectBegin(t)
        \/ EjectLock(t)
        \/ EjectClose(t)
        \/ EjectEnd(t)

EncThreadNext ==
    \/ OpenStreamBegin
    \/ OpenStreamLock
    \/ OpenStreamOpen
    \/ OpenStreamUnlock
    \/ CloseStreamBegin
    \/ CodecClose

NextThreads == EncThreadNext \/ \E t \in Players : PlayerNext(t)

\* the threads that use g.avc_mutex: one step per statement at the mutex or
\* at the codec API
SpecThreads == Init /\ [][NextThreads]_vars

NextDecoder ==
    \/ PlayerLoad
    \/ AvcodecdecodeInit
    \/ PlayerStart
    \/ PlayerEjectRequest
    \/ AvcodecdecodePlay
    \/ AvcodecdecodeEject

\* one player: the calls the player makes into the decoder, one action each
SpecDecoder == Init /\ [][NextDecoder]_vars

\* the steps of thread t inside one of its functions
ThreadNext(t) == IF t = EncThread THEN EncThreadNext ELSE PlayerNext(t)
Running(t) == pc[t] \notin {"idle", "ready", "opened"} /\ ThreadNext(t)

\* scheduling: a thread inside a function keeps running, and a thread that
\* retries pthread_mutex_trylock every 10 ns gets the mutex if the mutex is
\* free again and again; a thread outside its functions need not call again
FairThreads == \A t \in Threads : SF_vars(Running(t))

SpecThreadsFair == SpecThreads /\ FairThreads

\* ================================================================ claims
MainDid == last.op = "main"

\* ---- C1 ---------------------------------------------------------------
\* C1 as stated: every change live_webm_encoder_main makes to encoder_state
\* follows STARTING -> RUNNING -> STOPPING -> STOPPED: RUNNING only from
\* STARTING, STOPPING only from RUNNING, STOPPED only from STOPPING, and
\* STARTING is never re-entered.
C1_StrictProgression ==
    [][(last'.op = "main" /\ encoder'.encoder_state # encoder.encoder_state) =>
          /\ encoder'.encoder_state = "ES_RUNNING" =>
                                    encoder.encoder_state = "ES_STARTING"
          /\ encoder'.encoder_state = "ES_STOPPING" =>
                                    encoder.encoder_state = "ES_RUNNING"
          /\ encoder'.encoder_state = "ES_STOPPED" =>
                                    encoder.encoder_state = "ES_STOPPING"
          /\ encoder'.encoder_state # "ES_STARTING"]_vars

\* C1 (amended): every change live_webm_encoder_main makes to encoder_state
\* is STARTING -> RUNNING (run_request_f set), STARTING -> STOPPING
\* (run_request_f clear after two successful setups), STARTING -> STOPPED (a
\* setup failed), RUNNING -> STOPPING, STOPPING -> STARTING (run_request_f
\* set) or STOPPING -> STOPPED (run_request_f clear).
C1_Transitions ==
    [][(last'.op = "main" /\ encoder'.encoder_state # encoder.encoder_state) =>
          LET from == encoder.encoder_state
              to == encoder'.encoder_state
              rr == encoder.run_request_f
              failed == \E s \in States : last'.setup_ret[s] = "FAILED"
          IN \/ from = "ES_STARTING" /\ to = "ES_RUNNING" /\ rr /\ ~failed
             \/ from = "ES_STARTING" /\ to = "ES_STOPPING" /\ ~rr /\ ~failed
             \/ from = "ES_STARTING" /\ to = "ES_STOPPED" /\ failed
             \/ from = "ES_RUNNING" /\ to = "ES_STOPPING"
             \/ from = "ES_STOPPING" /\ to = "ES_STARTING" /\ rr
             \/ from = "ES_STOPPING" /\ to = "ES_STOPPED" /\ ~rr]_vars

\* an invocation in ES_STOPPING has restarted the encoder
C1_Witness ==
    MainDid /\ last.from = "ES_STOPPING" /\ encoder.encoder_state = "ES_STARTING"

\* ---- C2 ---------------------------------------------------------------
\* the threads inside avcodec_open2 or avcodec_close
InOpenClose == {t \in Threads : pc[t] \in {"reg_open", "eject_close",
                                           "open_call", "close_call"}}

\* C2: every call of avcodec_open2 and avcodec_close, in the decoder
\* (avcodecdecode_reg, avcodecdecode_eject) and in the encoder (open_stream
\* with its failure paths, close_stream), is made by a thread that holds
\* g.avc_mutex.
C2_OpenCloseUnderMutex == \A t \in InOpenClose : avc_mutex = t

\* ---- C3 ---------------------------------------------------------------
\* the positions outside avcodecdecode_reg, _play, _eject and open_stream
Returned == {"idle", "ready", "opened"}

\* C3: no function that takes g.avc_mutex returns while holding it: a thread
\* that is outside avcodecdecode_reg, avcodecdecode_play, avcodecdecode_eject
\* and open_stream does not hold the mutex, whichever return it took.
C3_NoReturnHoldingMutex ==
    \A t \in Threads : pc[t] \in Returned => avc_mutex # t

\* avcodecdecode_reg has returned REJECTED after it had taken the mutex twice
C3_Witness ==
    \E t \in Players : /\ pc[t] = "idle"
                       /\ xl[t].ret = "REJECTED"
                       /\ "avcodec_open2" \in xl[t].calls
                       /\ avc_mutex = NoThread

\* ---- C4 ---------------------------------------------------------------
\* C4: when setup returns FAILED none of the handles it acquired is still
\* allocated (format context, AVIO buffer, AVIO context, opened codec, the
\* two frames, the resampler), whichever step failed.
C4_FailedSetupHoldsNothing == MainDid => last.fail_live = {}

\* ---- C5 ---------------------------------------------------------------
\* C5: no failure path of setup dereferences or frees a handle that is NULL,
\* was never allocated or was already freed (an invocation in ES_STARTING
\* runs setup on two freshly initialised or torn-down states).
C5_SetupFailPathsValid ==
    (MainDid /\ last.from = "ES_STARTING") => last.faults = {}

\* ---- C6 ---------------------------------------------------------------
\* C6: once run_request_f is false and stays false, at most two further
\* invocations of live_webm_encoder_main bring the encoder to ES_STOPPED.
C6_StoppedWithinTwoCalls ==
    stop_calls >= 2 => encoder.encoder_state = "ES_STOPPED"

\* ---- C7 ---------------------------------------------------------------
\* C7: whenever live_webm_encoder_main leaves the encoder in ES_STOPPED,
\* run_request_f and flush are FALSE, run_encoder and encoder_private are
\* NULL, and the main and the metadata WebMState have each been freed
\* exactly once.
C7_StoppedIsClean ==
    (MainDid /\ last.to = "ES_STOPPED") =>
        /\ encoder.encoder_state = "ES_STOPPED"
        /\ ~encoder.run_request_f
        /\ ~encoder.flush
        /\ ~encoder.run_encoder
        /\ ~encoder.encoder_private
        /\ \A s \in States : priv[s] = [status |-> "freed", frees |-> 1]

\* the encoder was stopped from ES_STOPPING
C7_Witness ==
    MainDid /\ last.from = "ES_STOPPING" /\ last.to = "ES_STOPPED"

\* ---- C8 ---------------------------------------------------------------
\* C8: avcodecdecode_reg returns ACCEPTED only after the input was opened,
\* stream info was found, an audio stream was selected and its codec was
\* opened, and exactly then installs the three callbacks; when it returns
\* REJECTED no callback was installed, every handle opened during the call is
\* closed and the vars block was freed exactly once.
C8_RegContract ==
    \A t \in Players :
        /\ xl[t].ret = "ACCEPTED" =>
              /\ {"avformat_open_input", "avformat_find_stream_info",
                  "av_find_best_stream", "avcodec_open2"} \subseteq xl[t].calls
              /\ \E b \in xl[t].best : b >= 0
              /\ xl[t].codec_open
              /\ xl[t].installs = 1
        /\ xl[t].ret = "REJECTED" =>
              /\ xl[t].installs = 0
              /\ xl[t].ic = "null"
              /\ ~xl[t].codec_open
              /\ xl[t].dec_data # "null" =>
                    xl[t].dec_data = "freed" /\ xl[t].frees = 1

\* ---- C9 ---------------------------------------------------------------
\* C9: when av_find_best_stream reports no audio stream (a negative result)
\* avcodecdecode_reg neither indexes ic->streams nor opens a codec, and it
\* returns REJECTED.
C9_NoAudioStreamRejected ==
    \A t \in Players :
        (\E b \in xl[t].best : b < 0) =>
            /\ "index_streams" \notin xl[t].calls
            /\ "avcodec_open2" \notin xl[t].calls
            /\ xl[t].ret # "ACCEPTED"

\* ---- C10 --------------------------------------------------------------
\* C10: with a codec that is neither Vorbis nor Opus the first invocation
\* takes the encoder from ES_STARTING to ES_STOPPED: the first setup returns
\* FAILED, the second is never run, no handle is allocated and no packet is
\* delivered.
C10_OtherCodecStopsAtOnce ==
    (MainDid /\ last.from = "ES_STARTING" /\
     encoder.codec \notin {"ENCODER_CODEC_VORBIS", "ENCODER_CODEC_OPUS"}) =>
        /\ encoder.encoder_state = "ES_STOPPED"
        /\ last.setup_ret = [s \in States |-> IF s = "main" THEN "FAILED" ELSE "none"]
        /\ ws = [s \in States |-> W0]
        /\ last.out = <<>>
        /\ last.api = {}

\* an encoder started with another codec has run its first invocation
C10_Witness ==
    /\ MainDid /\ last.from = "ES_STARTING"
    /\ encoder.codec = "ENCODER_CODEC_OTHER"
    /\ encoder.encoder_state = "ES_STOPPED"

\* ---- C11 --------------------------------------------------------------
\* C11: every packet an invocation of live_webm_encoder_main hands to
\* encoder_write_packet_all carries PF_WEBM and the encoder's bitrate,
\* target_samplerate and n_channels, and the oggserial of the moment of its
\* callback: serials never decrease from packet to packet, lie between the
\* oggserial at entry and at return, and a header packet already carries the
\* serial its write_header has just incremented.
C11_PacketHeader ==
    [][last'.op = "main" =>
         \A i \in DOMAIN last'.out :
            LET pk == last'.out[i] IN
            /\ "PF_WEBM" \in pk.flags
            /\ pk.bit_rate = encoder.format.bitrate
            /\ pk.sample_rate = encoder.format.target_samplerate
            /\ pk.n_channels = encoder.format.n_channels
            /\ pk.serial >= encoder.oggserial
            /\ pk.serial <= encoder'.oggserial
            /\ i > 1 => last'.out[i - 1].serial <= pk.serial
            /\ "PF_HEADER" \in pk.flags => pk.serial > encoder.oggserial]_vars

\* one invocation has delivered a final packet and then a header packet
\* with the next serial
C11_Witness ==
    /\ MainDid
    /\ \E i, j \in DOMAIN last.out :
          /\ i < j
          /\ "PF_FINAL" \in last.out[i].flags
          /\ "PF_HEADER" \in last.out[j].flags
          /\ last.out[j].serial = last.out[i].serial + 1
          /\ last.out[j].bit_rate = 128

\* ---- C12 --------------------------------------------------------------
\* the events of the most recent decoder call, by name
LogNames == [i \in DOMAIN xlplayer.log |-> xlplayer.log[i].ev]
ReadEnded == xlplayer.op = "play" /\ Len(xlplayer.log) > 0 /\
             xlplayer.log[1].ev \in {"read_failed", "read_empty"}

\* C12: a call of avcodecdecode_play in which av_read_frame fails or yields
\* an empty packet returns with playmode PM_EJECTING; without resampling it
\* does nothing else; with resampling it first runs src_process with
\* end_of_input set and zero input frames, and then either demuxes and writes
\* the output before it changes the mode, or, on a flush error, changes the
\* mode with nothing demuxed or written.
C12_EndOfInputEjects ==
    ReadEnded =>
        /\ xlplayer.playmode = "PM_EJECTING"
        /\ LET names == SubSeq(LogNames, 2, Len(LogNames)) IN
           IF ~xlplayer.resample THEN names = <<"playmode">>
           ELSE /\ xlplayer.log[2] =
                      [Ev("src_process") EXCEPT !.eoi = TRUE, !.frames = 0]
                /\ \/ names = <<"src_process", "demux", "write", "playmode">>
                   \/ names = <<"src_process", "resample_error", "playmode">>

\* the input ended with the resampler active and its flush failed
C12_Witness ==
    /\ ReadEnded
    /\ xlplayer.resample
    /\ \E i \in DOMAIN xlplayer.log : xlplayer.log[i].ev = "resample_error"

\* ---- C13 --------------------------------------------------------------
InitFailed == \E i \in DOMAIN xlplayer.log :
                 xlplayer.log[i].ev \in {"malloc_failed", "src_new_failed"}
Ejects == {i \in DOMAIN xlplayer.log : xlplayer.log[i].ev = "eject"}

\* C13: after a call of avcodecdecode_init in which the allocation of the
\* output buffer or src_new failed, avcodecdecode_eject has run exactly once
\* within the call, with self->resample already cleared, playmode is
\* PM_STOPPED and command is CMD_COMPLETE; after a call in which neither
\* failed, nothing was ejected and playmode and command are as the player
\* set them (PM_INITIATE, CMD_PLAY).
C13_InitFailureEjects ==
    xlplayer.op = "init" =>
        IF InitFailed
        THEN /\ Cardinality(Ejects) = 1
             /\ xlplayer.ejects = 1
             /\ \A i \in Ejects : ~xlplayer.log[i].resample
             /\ xlplayer.faults = {}
             /\ xlplayer.playmode = "PM_STOPPED"
             /\ xlplayer.command = "CMD_COMPLETE"
        ELSE /\ Ejects = {}
             /\ xlplayer.ejects = 0
             /\ xlplayer.playmode = "PM_INITIATE"
             /\ xlplayer.command = "CMD_PLAY"

\* src_new failed in avcodecdecode_init
C13_Witness ==
    /\ xlplayer.op = "init"
    /\ \E i \in DOMAIN xlplayer.log : xlplayer.log[i].ev = "src_new_failed"
    /\ xlplayer.playmode = "PM_STOPPED"

\* ---- C14 --------------------------------------------------------------
\* the positions in the trylock/nanosleep loops
Spinning == {"reg_lock1", "reg_lock2", "play_lock", "eject_lock", "open_lock"}

InCodecApi == {t \in Players : pc[t] \in {"reg_find", "reg_open", "play_decode",
                                          "eject_close"}}

\* C15: of the player threads running avcodecdecode_reg, avcodecdecode_play
\* and avcodecdecode_eject, at most one at a time is inside
\* av_find_best_stream, avcodec_open2, avcodec_decode_audio4 or avcodec_close.
C15_PlayersExcluded == Cardinality(InCodecApi) <= 1

\* a player is inside avcodec_decode_audio4 while another waits for the
\* mutex to call avcodec_close
C15_Witness ==
    \E t, u \in Players : pc[t] = "play_decode" /\ pc[u] = "eject_lock"

\* ---- C16 --------------------------------------------------------------
\* C16: in every reachable sequence of invocations of live_webm_encoder_main
\* write_trailer and teardown are applied only to a WebMState whose most
\* recent setup returned SUCCEEDED and which was not torn down since.
C16_OnlySetUpStatesUsed == MainDid => last.misapplied = {}

\* ---- C17 --------------------------------------------------------------
\* C17: when live_webm_encoder_main has gone through its cleanup (the
\* encoder is left in ES_STOPPED and the private state is freed), every
\* successful setup has been undone by a teardown: neither the main nor the
\* metadata state is still set up or still holds an open codec, a frame, a
\* resampler, an AVIO context or a format context.
C17_NothingHeldAtCleanup ==
    (MainDid /\ last.to = "ES_STOPPED") =>
        \A s \in States :
            /\ ~ws[s].set_up
            /\ \A r \in {"codec", "frame", "tmp_frame", "swr_ctx", "avio_ctx", "oc"} :
                  ~Held(ws[s], r)

\* ---- C18 --------------------------------------------------------------
\* C18: an invocation in ES_RUNNING in which write_audio_frame has returned
\* leaves the encoder in ES_RUNNING exactly when write_audio_frame reported
\* no error and run_request_f is set; in every other case it leaves it in
\* ES_STOPPING, never in ES_STOPPED or ES_STARTING.
C18_RunningStaysOrStops ==
    (MainDid /\ last.from = "ES_RUNNING" /\ last.write_ret # {}) =>
        /\ encoder.encoder_state \in {"ES_RUNNING", "ES_STOPPING"}
        /\ encoder.encoder_state = "ES_RUNNING" <=>
              (-1 \notin last.write_ret /\ encoder.run_request_f)

\* write_audio_frame drained the codec without error after run_request_f
\* was cleared
C18_Witness ==
    /\ MainDid /\ last.from = "ES_RUNNING"
    /\ last.write_ret = {1}
    /\ encoder.encoder_state = "ES_STOPPING"

\* ---- C19 --------------------------------------------------------------
\* the packets of the most recent invocation that carry flag f
Packets(f) == {i \in DOMAIN last.out : f \in last.out[i].flags}

\* C19: an invocation in ES_STOPPING that returns has written the trailers
\* of both streams (the final packet of the main stream is delivered, the
\* metadata stream's is suppressed) and torn both states down; it leaves the
\* encoder in ES_STARTING with its private state kept if run_request_f was
\* set, otherwise in ES_STOPPED with the private state freed; flush is FALSE
\* in both cases.
C19_StoppingRestartsOrStops ==
    [][(last'.op = "main" /\ last'.from = "ES_STOPPING" /\ ~crashed') =>
          /\ encoder'.encoder_state =
                 IF encoder.run_request_f THEN "ES_STARTING" ELSE "ES_STOPPED"
          /\ ~encoder'.flush
          /\ IF encoder.run_request_f
             THEN priv' = priv /\ encoder'.encoder_private /\ encoder'.run_encoder
             ELSE \A s \in States : priv'[s].status = "freed"
          /\ \A s \in States :
                ~ws'[s].set_up /\ \A r \in Resources : ~Held(ws'[s], r)
          /\ Len(last'.out) >= 1
          /\ \A i \in DOMAIN last'.out : last'.out[i].state = "main"
          /\ LET f == last'.out[Len(last'.out)] IN "PF_FINAL" \in f.flags]_vars

\* an invocation in ES_STOPPING has delivered the final packet and restarted
\* the encoder
C19_Witness ==
    /\ MainDid /\ last.from = "ES_STOPPING"
    /\ encoder.encoder_state = "ES_STARTING"
    /\ Packets("PF_FINAL") # {}
    /\ ~encoder.flush

\* ---- C20 --------------------------------------------------------------
\* a WebMState without its packet flags and sample counters
Handles(w) == [w EXCEPT !.packet_flags = {}, !.next_pts = 0, !.samples_count = 0]

\* C20: an invocation in ES_RUNNING that finds flush set (and no metadata
\* change) and returns has cleared flush, has delivered the main stream's
\* trailer ending with exactly one PF_FINAL packet, has then delivered the
\* header packets from the metadata state with oggserial incremented by
\* exactly one, has closed or reopened no codec, frame or resampler, and
\* leaves encoder_state as write_audio_frame alone decides.
C20_FlushServicedOnce ==
    [][(/\ last'.op = "main" /\ ~crashed'
        /\ encoder.encoder_state = "ES_RUNNING"
        /\ encoder.flush
        /\ ~(encoder.new_metadata /\ encoder.use_metadata)) =>
          LET out == last'.out
              finals == {i \in DOMAIN out : "PF_FINAL" \in out[i].flags}
              headers == {i \in DOMAIN out : "PF_HEADER" \in out[i].flags}
          IN /\ ~encoder'.flush
             /\ Cardinality(finals) = 1
             /\ \A i \in finals :
                   /\ out[i].state = "main"
                   /\ out[i].serial = encoder.oggserial
                   /\ \A j \in 1..i : out[j].state = "main" /\
                                      "PF_HEADER" \notin out[j].flags
             /\ \A i \in headers :
                   /\ out[i].state = "meta"
                   /\ out[i].serial = encoder.oggserial + 1
                   /\ \A j \in finals : j < i
             /\ encoder'.oggserial = encoder.oggserial + 1
             /\ \A s \in States : Handles(ws'[s]) = Handles(ws[s])
             /\ \A c \in last'.api : c.call \notin {"avcodec_open2", "avcodec_close"}
             /\ encoder'.encoder_state =
                    IF last'.write_ret = {0} THEN "ES_RUNNING" ELSE "ES_STOPPING"
      ]_vars

\* a flush has delivered a final packet and a header packet with the next
\* serial, and the encoder keeps running
C20_Witness ==
    /\ MainDid /\ last.from = "ES_RUNNING" /\ encoder.encoder_state = "ES_RUNNING"
    /\ \E i, j \in DOMAIN last.out :
          /\ i < j
          /\ "PF_FINAL" \in last.out[i].flags /\ last.out[i].state = "main"
          /\ "PF_HEADER" \in last.out[j].flags /\ last.out[j].state = "meta"
    /\ last.api = {}

\* ---- C22 --------------------------------------------------------------
\* C22: after live_webm_encoder_init, either it SUCCEEDED and
\* encoder_private points at a main WebMState with its metadata sub-state and
\* run_encoder is set, or it FAILED, encoder_private and run_encoder are
\* unchanged and no block the call allocated is still allocated.
C22_InitAllOrNothing ==
    last.op = "init" =>
        IF encoder.encoder_private
        THEN encoder.run_encoder /\ \A s \in States : priv[s].status = "live"
        ELSE ~encoder.run_encoder /\ \A s \in States : priv[s].status # "live"

\* ---- C26 --------------------------------------------------------------
FramingFlags == {"PF_HEADER", "PF_FINAL", "PF_SUPPRESS"}

\* C26: an invocation that returns leaves none of PF_HEADER, PF_FINAL and
\* PF_SUPPRESS in the packet_flags of either state, and found none of them
\* when it entered write_audio_frame; the packets of an invocation that only
\* writes an audio frame carry none of them; PF_INITIAL appears in a state's
\* flags only in an invocation that ran write_header on that state, and is
\* gone from a state once a callback on it followed the last write_header.
C26_FlagsOutsideFraming ==
    [][(last'.op = "main" /\ ~crashed') =>
          LET from == encoder.encoder_state
              meta == encoder.new_metadata /\ encoder.use_metadata
              plain == from = "ES_RUNNING" /\ ~meta /\ ~encoder.flush
              headers == from = "ES_STARTING" \/
                         (from = "ES_RUNNING" /\ (meta \/ encoder.flush))
          IN /\ \A s \in States : ws'[s].packet_flags \cap FramingFlags = {}
             /\ last'.at_write \cap FramingFlags = {}
             /\ plain => \A i \in DOMAIN last'.out :
                            /\ last'.out[i].flags \cap FramingFlags = {}
                            /\ i > 1 => "PF_INITIAL" \notin last'.out[i].flags
             /\ \A s \in States :
                   "PF_INITIAL" \in ws'[s].packet_flags \ ws[s].packet_flags
                       => headers
             /\ (plain /\ last'.out # <<>>) =>
                       "PF_INITIAL" \notin ws'.main.packet_flags
             /\ from = "ES_STOPPING" =>
                   \A s \in States : "PF_INITIAL" \notin ws'[s].packet_flags
      ]_vars

\* an invocation in ES_RUNNING that serviced a flush has delivered an audio
\* packet after the header packets
C26_Witness ==
    /\ MainDid /\ last.from = "ES_RUNNING" /\ last.write_ret = {0}
    /\ \E i, j \in DOMAIN last.out :
          /\ i < j
          /\ "PF_HEADER" \in last.out[i].flags
          /\ last.out[j].flags \cap FramingFlags = {} /\ last.out[j].state = "main"
    /\ last.at_write \cap FramingFlags = {}

\* ---- C27 --------------------------------------------------------------
\* C27: an invocation that finds run_request_f set gives every encode call
\* of write_audio_frame a real audio frame; the codec receives the null
\* (drain) frame only in an invocation that finds run_request_f clear.
C27_NullFrameOnlyWhenStopping ==
    [][(/\ last'.op = "main"
        /\ encoder.encoder_state = "ES_RUNNING"
        /\ encoder.run_request_f
        /\ last'.encode # "none") => last'.encode = "frame"]_vars

\* ---- C25 --------------------------------------------------------------
\* a delivered packet that is neither a header packet nor a final packet
IsAudio(p) == "PF_HEADER" \notin p.flags /\ "PF_FINAL" \notin p.flags

\* C25: in the packets an invocation delivers, header packets come from the
\* metadata state, and the packet that follows a PF_FINAL packet is never an
\* audio packet: a header packet with the next serial is delivered first.
C25_FinalThenHeader ==
    MainDid =>
        \A i \in DOMAIN last.out :
            /\ "PF_HEADER" \in last.out[i].flags => last.out[i].state = "meta"
            /\ ("PF_FINAL" \in last.out[i].flags /\ i < Len(last.out)) =>
                   ~IsAudio(last.out[i + 1])

\* ---- C23 --------------------------------------------------------------
\* C23: a call of avcodecdecode_play that finds write_deferred set only calls
\* xlplayer_write_channel_data: it reads no packet, decodes nothing, scans no
\* chapter and leaves size, the packet, drop and playmode as they were.
C23_DeferredWriteOnly ==
    [][(xlplayer'.op = "play" /\ xlplayer' # xlplayer /\ xlplayer.write_deferred) =>
          /\ xlplayer'.log = <<Ev("write")>>
          /\ xlplayer'.size = xlplayer.size
          /\ xlplayer'.pkt = xlplayer.pkt
          /\ xlplayer'.pkt_audio = xlplayer.pkt_audio
          /\ xlplayer'.drop = xlplayer.drop
          /\ xlplayer'.playmode = xlplayer.playmode
          /\ xlplayer'.faults = xlplayer.faults /\ ~xlplayer'.hung]_vars

\* a play call that found a deferred write, with part of a packet still to
\* decode, has only written
C23_Witness ==
    /\ xlplayer.op = "play" /\ xlplayer.log = <<Ev("write")>>
    /\ xlplayer.size > 0 /\ xlplayer.pkt = "live"

\* ---- C30 --------------------------------------------------------------
\* C30: every call of avcodecdecode_play returns: each iteration of its
\* decode loop that goes round again has strictly decreased self->size, so
\* the loop never makes more iterations than the packet has bytes.
C30_PlayReturns == ~xlplayer.hung

\* ---- C24 --------------------------------------------------------------
\* C24: the resampler state and its output buffer are never released twice
\* and never used after their release; with no file loaded neither is still
\* allocated; after a successful init self->resample is set iff the sample
\* rates differ, and then both exist; after a failed init it is clear; and
\* avcodecdecode_eject releases the two iff self->resample is set.
C24_ResamplerReleasedOnce ==
    /\ [](/\ xlplayer.faults = {}
          /\ xlplayer.stage = "none" =>
                 xlplayer.src_state # "live" /\ xlplayer.data_out # "live"
          /\ xlplayer.stage = "inited" =>
                 /\ xlplayer.resample = ~xlplayer.rate_match
                 /\ xlplayer.resample =>
                        xlplayer.src_state = "live" /\ xlplayer.data_out = "live"
          /\ InitFailed => ~xlplayer.resample)
    /\ [][xlplayer'.op = "eject" =>
            IF xlplayer.resample
            THEN xlplayer'.src_state = "null" /\ xlplayer'.data_out = "dangling"
            ELSE /\ xlplayer'.src_state = xlplayer.src_state
                 /\ xlplayer'.data_out = xlplayer.data_out]_vars

\* a file that was resampled and played has been ejected
C24_Witness ==
    /\ xlplayer.op = "eject" /\ xlplayer.stage = "none"
    /\ xlplayer.log[1].resample
    /\ xlplayer.src_state = "null" /\ xlplayer.data_out = "dangling"

\* ---- C21 --------------------------------------------------------------
\* C21: no delivered packet carries PF_SUPPRESS, and nothing written under
\* PF_SUPPRESS is delivered: an invocation in ES_STARTING delivers packets of
\* the metadata state only, one in ES_STOPPING packets of the main state only
\* (its final packet among them), and one in ES_RUNNING no header packet of
\* the main state and nothing but header packets of the metadata state;
\* encoder->timestamp is the timestamp of the last packet delivered, and is
\* unchanged if none was, whatever callbacks were suppressed.
C21_SuppressedNotDelivered ==
    [][last'.op = "main" =>
          LET out == last'.out
              from == encoder.encoder_state
          IN /\ \A i \in DOMAIN out :
                   /\ "PF_SUPPRESS" \notin out[i].flags
                   /\ from = "ES_STARTING" => out[i].state = "meta"
                   /\ from = "ES_STOPPING" => out[i].state = "main"
                   /\ from = "ES_RUNNING" =>
                          (out[i].state = "meta" <=> "PF_HEADER" \in out[i].flags)
             /\ (from = "ES_STOPPING" /\ ~crashed') =>
                   out # <<>> /\ "PF_FINAL" \in out[Len(out)].flags
             /\ encoder'.timestamp = IF out = <<>> THEN encoder.timestamp
                                     ELSE out[Len(out)].timestamp]_vars

\* a flush whose last delivered packet is the final packet of the main
\* state, stamped after a frame of input: the suppressed callback of the
\* metadata state's trailer came after it
C21_Witness ==
    /\ MainDid /\ last.from = "ES_RUNNING" /\ ~crashed
    /\ last.out # <<>>
    /\ "PF_FINAL" \in last.out[Len(last.out)].flags
    /\ last.out[Len(last.out)].timestamp # NoTimestamp
    /\ encoder.timestamp = last.out[Len(last.out)].timestamp

\* ---- C28 --------------------------------------------------------------
\* a <= b for timestamps
TsLeq(a, b) == a[1] * b[2] <= b[1] * a[2]

\* C28: an invocation that finds and leaves the encoder in ES_RUNNING does
\* not decrease encoder->timestamp: every packet it delivers is stamped no
\* earlier than the packet before it and than the timestamp at entry.
C28_TimestampMonotone ==
    [][(/\ last'.op = "main" /\ ~crashed'
        /\ encoder.encoder_state = "ES_RUNNING"
        /\ encoder'.encoder_state = "ES_RUNNING") =>
          /\ TsLeq(encoder.timestamp, encoder'.timestamp)
          /\ \A i \in DOMAIN last'.out :
                /\ TsLeq(encoder.timestamp, last'.out[i].timestamp)
                /\ i > 1 => TsLeq(last'.out[i - 1].timestamp,
                                  last'.out[i].timestamp)]_vars

\* ---- C29 --------------------------------------------------------------
\* C29: samples_count equals next_pts in both states after every invocation.
C29_CountersAgree ==
    \A s \in States : ws[s].samples_count = ws[s].next_pts

\* ---- C31 --------------------------------------------------------------
\* the most recent play call left its decode loop on a decode error
DecodeFailed ==
    /\ xlplayer.op = "play" /\ ~xlplayer.hung /\ xlplayer.log # <<>>
    /\ xlplayer.log[Len(xlplayer.log)] = Ev("decode")

\* C31: after a play call in which avcodec_decode_audio4 reported an error
\* the decoder has moved on: the packet is released and nothing of it is
\* left to decode, so the next call reads later input.
C31_ErrorMovesOn ==
    DecodeFailed => xlplayer.size <= 0 /\ xlplayer.pkt # "live"

\* ---- C32 --------------------------------------------------------------
\* C32: every call of xlplayer_demux_channel_data made by avcodecdecode_play
\* passes a channel count of 1 or 2 that equals self->channels.
C32_DemuxChannels ==
    xlplayer.op = "play" =>
        \A i \in DOMAIN xlplayer.log :
            xlplayer.log[i].ev = "demux" =>
                /\ xlplayer.log[i].channels \in {1, 2}
                /\ xlplayer.log[i].channels = xlplayer.channels

\* ---- C33 --------------------------------------------------------------
\* C33: a packet read by avcodecdecode_play is freed once: no read replaces a
\* packet that is still held, the decoder is never given the data of a freed
\* packet, whatever is left to decode between calls belongs to a held packet,
\* and once the player is ejected no packet is held.
C33_PacketFreedOnce ==
    /\ xlplayer.faults \cap {"packet_lost", "freed_packet_decoded"} = {}
    /\ xlplayer.stage = "inited" /\ xlplayer.size > 0 => xlplayer.pkt = "live"
    /\ xlplayer.stage = "none" => xlplayer.pkt # "live"

\* an eject released the packet that a play call cut short had kept
C33_Witness ==
    /\ xlplayer.op = "eject" /\ xlplayer.stage = "none"
    /\ xlplayer.size > 0 /\ xlplayer.pkt = "null"
    /\ xlplayer.faults = {}

\* ---- C34 --------------------------------------------------------------
\* the frames the decode loop of the call logged in l demuxed (the flush at
\* the end of the input follows a src_process with end_of_input set)
LoopDemux(l) ==
    {i \in DOMAIN l : l[i].ev = "demux" /\ i > 1 /\ ~l[i - 1].eoi}
FrameWritten(l, i) == i < Len(l) /\ l[i + 1].ev = "write"
FramesBefore(l, i) == Cardinality({j \in LoopDemux(l) : j < i})

\* C34: avcodecdecode_init sets drop to the drop period exactly when the
\* stream is one that glitches and playback starts with a seek, and it is 0
\* otherwise and stays 0; in every play call a frame of the decode loop is
\* written iff the frames discarded before it make up what was left of the drop
\* period, and each discarded frame is taken off drop.
C34_DropPeriod ==
    /\ [](/\ xlplayer.op = "init" /\ xlplayer.stage = "inited" =>
               xlplayer.drop = IF xlplayer.seek_glitch THEN DropFrames ELSE 0
          /\ xlplayer.stage = "inited" /\ ~xlplayer.seek_glitch =>
               xlplayer.drop = 0)
    /\ [][xlplayer'.op = "play" /\ xlplayer' # xlplayer =>
            LET l == xlplayer'.log
                n == Cardinality(LoopDemux(l))
            IN /\ \A i \in LoopDemux(l) :
                    FrameWritten(l, i) <=> FramesBefore(l, i) >= xlplayer.drop
               /\ xlplayer'.drop =
                    IF n >= xlplayer.drop THEN 0 ELSE xlplayer.drop - n]_vars

\* a play call after a seek in a stream that glitches discarded a frame and
\* wrote the next one
C34_Witness ==
    /\ xlplayer.op = "play" /\ xlplayer.seek_glitch /\ xlplayer.drop = 0
    /\ \E i, j \in LoopDemux(xlplayer.log) :
         /\ i < j
         /\ ~FrameWritten(xlplayer.log, i)
         /\ FrameWritten(xlplayer.log, j)

\* ---- C35 --------------------------------------------------------------
\* the calls of xlplayer_set_dynamic_metadata logged in l
Announced(l) == {i \in DOMAIN l : l[i].ev = "set_dynamic_metadata"}

\* C35: a play call announces a chapter at most once, as its last act, with
\* the packet consumed and freed, right after a scan that returned that
\* chapter, which differs from current_chapter as the call found it and is
\* what the call leaves there; a call that announces nothing leaves
\* current_chapter alone. As current_chapter changes nowhere else after the
\* file is registered, where it is set to what is announced there, it always
\* holds the chapter announced last: no chapter is announced twice in a row
\* and none while the scan returns no chapter.
C35_ChapterAnnounced ==
    [][xlplayer' # xlplayer =>
         LET l == xlplayer'.log IN
         IF xlplayer'.op = "play"
         THEN /\ Cardinality(Announced(l)) <= 1
              /\ \A i \in Announced(l) :
                   /\ i = Len(l) /\ i > 1
                   /\ l[i - 1] = EvScan(l[i].chapter)
                   /\ l[i].chapter \in Chapters \ {xlplayer.current_chapter}
                   /\ xlplayer'.current_chapter = l[i].chapter
                   /\ xlplayer'.size <= 0 /\ xlplayer'.pkt # "live"
              /\ Announced(l) = {} =>
                   xlplayer'.current_chapter = xlplayer.current_chapter
         ELSE IF xlplayer'.op = "load"
         THEN \/ l = <<>> /\ xlplayer'.current_chapter = "none"
              \/ /\ xlplayer'.current_chapter \in Chapters
                 /\ l = <<EvAnnounce(xlplayer'.current_chapter)>>
         ELSE /\ xlplayer'.op \in {"init", "eject"} => Announced(l) = {}
              /\ xlplayer'.current_chapter = xlplayer.current_chapter]_vars

\* a play call wrote a frame, consumed its packet and announced a chapter
C35_Witness ==
    /\ xlplayer.op = "play" /\ xlplayer.log # <<>>
    /\ xlplayer.log[Len(xlplayer.log)] = EvAnnounce("chapter2")
    /\ \E i \in DOMAIN xlplayer.log : xlplayer.log[i].ev = "write"
    /\ xlplayer.current_chapter = "chapter2"

====
